---- MODULE Spec2Model ----
(***************************************************************************)
(* Model of the meeting bot backend (backend/server.mjs): the in-memory    *)
(* bot state, the Recall webhook handler, GET /api/bots/:id/state, and the *)
(* participation analytics function computeParticipationMetrics.           *)
(*                                                                         *)
(* Conventions                                                             *)
(*  - time is counted in milliseconds (1.5 s is 1500, 15 s is 15000), and  *)
(*    arithmetic on it is exact;                                           *)
(*  - a text is a sequence of characters drawn from "a" and " ";           *)
(*  - a nullable JS value x is Null (<<>>) or Some(x) (<<x>>);             *)
(*  - a share count/total is the exact rational, kept in lowest terms      *)
(*    (the doubles count/total of two integer pairs are equal, or ordered, *)
(*    exactly when the rationals are, for every total below 2^52);         *)
(*  - a JS object used as a dictionary is its insertion order and values;  *)
(*    its enumeration order (Object.entries) is computed by ObjectKeys.    *)
(***************************************************************************)
EXTENDS Integers, Sequences, FiniteSets, TLC

(* ------------------------------ bounds -------------------------------- *)
\* longest utterance log handed to the analytics function
MaxLog == 3
\* longest utterance log a bot accumulates through the webhook
MaxTranscripts == 2
\* largest reading of the server clock
MaxClock == 1
\* last minute of the browser clock
MaxMinutes == 5
\* longest log whose recent window is examined
MaxWindowLog == 9
\* GET /state answers on their way to the browser at one time
MaxPending == 2

(* --------------------------- program constants ------------------------ *)
\* computeParticipationMetrics(transcripts, windowSize = 8)
DefaultWindowSize == 8
\* buildCoachWindow(state, 8) in POST /api/bots/:id/coach
CoachWindowTurns == 8
\* const MIN_SPACING_MS = 2 * 60 * 1000, in minutes
MinSpacing == 2
\* if (gap >= 0 && gap <= 1.5), in milliseconds
InterruptionGapMax == 1500
\* "none longer than ~15s so far", in milliseconds
SilenceMinSec == 15000

(* ------------------------------ JS values ----------------------------- *)
Null == <<>>
Some(x) == <<x>>

Range(s) == {s[i] : i \in 1..Len(s)}
Front(s) == SubSeq(s, 1, Len(s) - 1)
Last(s) == s[Len(s)]

\* A timestamp-valued property: missing, a number, a date string that
\* Date.parse accepts (v is the instant it denotes), or any other string.
Undefined == [kind |-> "undefined", v |-> 0]
Num(n) == [kind |-> "number", v |-> n]
IsoString(n) == [kind |-> "isostring", v |-> n]
BadString == [kind |-> "string", v |-> 0]

\* JS truthiness of such a value (the strings of the model are non-empty)
Truthy(x) ==
    CASE x.kind = "undefined" -> FALSE
      [] x.kind = "number" -> x.v # 0
      [] OTHER -> TRUE

\* a || b
OrElse(a, b) == IF Truthy(a) THEN a ELSE b

\* Date.parse on a date string denoting instant v: its milliseconds
DateParse(x) == x.v

(* -------------------------------- text -------------------------------- *)
RECURSIVE CountWords(_, _)
CountWords(text, inWord) ==
    IF text = <<>> THEN 0
    ELSE IF Head(text) = " " THEN CountWords(Tail(text), FALSE)
    ELSE (IF inWord THEN 0 ELSE 1) + CountWords(Tail(text), TRUE)

\* text.split(/\s+/).filter(Boolean).length
WordCount(text) == CountWords(text, FALSE)

RECURSIVE TrimStart(_)
TrimStart(text) ==
    IF text # <<>> /\ Head(text) = " " THEN TrimStart(Tail(text)) ELSE text

RECURSIVE TrimEnd(_)
TrimEnd(text) ==
    IF text # <<>> /\ Last(text) = " " THEN TrimEnd(Front(text)) ELSE text

\* String.prototype.trim
Trim(text) == TrimEnd(TrimStart(text))

RECURSIVE JoinWords(_)
\* words.map((w) => w.text).join(" ")
JoinWords(words) ==
    IF words = <<>> THEN <<>>
    ELSE IF Len(words) = 1 THEN words[1].text
    ELSE words[1].text \o <<" ">> \o JoinWords(Tail(words))

(* ------------------------------ rationals ----------------------------- *)
RECURSIVE GCD(_, _)
GCD(a, b) == IF b = 0 THEN a ELSE GCD(b, a % b)

Ratio(n, d) == LET g == GCD(n, d) IN [num |-> n \div g, den |-> d \div g]
Zero == Ratio(0, 1)
One == Ratio(1, 1)
RatLT(x, y) == x.num * y.den < y.num * x.den
RatGT(x, y) == RatLT(y, x)
RatAdd(x, y) == Ratio(x.num * y.den + y.num * x.den, x.den * y.den)

(* ------------------------------ JS objects ---------------------------- *)
EmptyObj == [order |-> <<>>, val |-> <<>>]

ObjHas(obj, k) == k \in Range(obj.order)

\* obj[k] || 0
ObjGetOr0(obj, k) == IF ObjHas(obj, k) THEN obj.val[k] ELSE 0

\* obj[k] = v
ObjSet(obj, k, v) ==
    [order |-> IF ObjHas(obj, k) THEN obj.order ELSE Append(obj.order, k),
     val |-> [x \in Range(obj.order) \cup {k} |->
                 IF x = k THEN v ELSE obj.val[x]]]

\* The property names of the model that are canonical array indices, in
\* ascending numeric order.
IntegerKeys == <<"1", "2">>

\* Property enumeration order of Object.entries / Object.values: integer
\* keys in ascending order first, then the other keys in insertion order.
ObjectKeys(obj) ==
    SelectSeq(IntegerKeys, LAMBDA k : ObjHas(obj, k))
        \o SelectSeq(obj.order, LAMBDA k : k \notin Range(IntegerKeys))

RECURSIVE SumOver(_, _)
SumOver(keys, obj) ==
    IF keys = <<>> THEN 0 ELSE obj.val[Head(keys)] + SumOver(Tail(keys), obj)

\* Object.values(obj).reduce((s, v) => s + v, 0)
SumValues(obj) == SumOver(ObjectKeys(obj), obj)

(* ------------------- participation metrics (the engine) --------------- *)
\* toSeconds(ts): a number as it is, a parseable date string as
\* Date.parse(ts) / 1000 seconds, anything else null
toSeconds(ts) ==
    CASE ts.kind = "number" -> Some(ts.v)
      [] ts.kind = "isostring" -> Some(DateParse(ts))
      [] OTHER -> Null

\* the text property of an utterance object that has none (undefined)
MissingText == <<"undefined">>

\* t.text || ""
TextOrEmpty(t) == IF t.text = MissingText THEN <<>> ELSE t.text

\* t.speakerName || "Unknown"
SpeakerOf(t) == IF t.speakerName = "" THEN "Unknown" ELSE t.speakerName

RECURSIVE WordCountsOf(_)
\* transcripts.forEach: wordCounts[name] = (wordCounts[name] || 0) + words
WordCountsOf(transcripts) ==
    IF transcripts = <<>> THEN EmptyObj
    ELSE LET prev == WordCountsOf(Front(transcripts))
             t == Last(transcripts)
             name == SpeakerOf(t)
         IN ObjSet(prev, name,
                   ObjGetOr0(prev, name) + WordCount(TextOrEmpty(t)))

\* mutant: the share reported as a percentage
ShareOf_Percent(count, totalWords) ==
    IF totalWords > 0 THEN Ratio(count * 100, totalWords) ELSE Zero

\* totalWords > 0 ? count / totalWords : 0
ShareOf(count, totalWords) ==
    IF totalWords > 0 THEN Ratio(count, totalWords) ELSE Zero

\* mutant: speakers without words get no entry
SpeakingShareOf_SkipSilent(wordCounts, totalWords) ==
    [order |-> SelectSeq(ObjectKeys(wordCounts),
                         LAMBDA k : wordCounts.val[k] > 0),
     val |-> [name \in {k \in Range(wordCounts.order) :
                           wordCounts.val[k] > 0} |->
                 ShareOf(wordCounts.val[name], totalWords)]]

\* the speakingShare object: one entry per key of wordCounts
SpeakingShareOf(wordCounts, totalWords) ==
    [order |-> ObjectKeys(wordCounts),
     val |-> [name \in Range(wordCounts.order) |->
                 ShareOf(wordCounts.val[name], totalWords)]]

RECURSIVE DominantScan(_, _, _, _)
\* for (const [name, count] of Object.entries(wordCounts)):
\*   if (share > dominantShare) { dominantShare = share; dominantSpeaker = name }
DominantScan(keys, wordCounts, totalWords, acc) ==
    IF keys = <<>> THEN acc
    ELSE LET name == Head(keys)
             share == ShareOf(wordCounts.val[name], totalWords)
         IN DominantScan(Tail(keys), wordCounts, totalWords,
                IF RatGT(share, acc.share)
                THEN [speaker |-> Some(name), share |-> share]
                ELSE acc)

\* let dominantSpeaker = null; let dominantShare = 0; then the loop
DominantOf(wordCounts, totalWords) ==
    DominantScan(ObjectKeys(wordCounts), wordCounts, totalWords,
                 [speaker |-> Null, share |-> Zero])

RECURSIVE EntriesBelow(_, _, _)
EntriesBelow(keys, share, threshold) ==
    IF keys = <<>> THEN <<>>
    ELSE LET name == Head(keys)
             rest == EntriesBelow(Tail(keys), share, threshold)
         IN IF RatLT(share.val[name], threshold)
            THEN <<[name |-> name, share |-> share.val[name]]>> \o rest
            ELSE rest

\* mutant: a speaker with share 0 is not listed
UnderrepresentedOf_SkipZero(speakingShare) ==
    SelectSeq(EntriesBelow(ObjectKeys(speakingShare), speakingShare,
                           Ratio(1, 5)),
              LAMBDA e : RatGT(e.share, Zero))

\* Object.entries(speakingShare).filter(([_, share]) => share < 0.2)
\*   .map(([name, share]) => ({ name, share }))
UnderrepresentedOf(speakingShare) ==
    EntriesBelow(ObjectKeys(speakingShare), speakingShare, Ratio(1, 5))

\* toSeconds(t.createdAt || (t.words && ...) || t.startSec); a stored
\* utterance carries no words property
CurTimeOf(t) == toSeconds(OrElse(t.createdAt, t.startSec))

\* the loop variables before the first utterance
ScanInit ==
    [transitions |-> 0, interruptions |-> 0,
     prevSpeaker |-> Null, prevTime |-> Null,
     firstTime |-> Null, lastTime |-> Null,
     longestSilence |-> [durationSec |-> 0, fromSec |-> Null, toSec |-> Null]]

\* mutant: a speaker change is only counted between two timed utterances
ScanStep_TimedOnly(st, t) ==
    LET curSpeaker == SpeakerOf(t)
        curTime == CurTimeOf(t)
        switched == st.prevSpeaker # Null /\ Some(curSpeaker) # st.prevSpeaker
        timed == switched /\ st.prevTime # Null /\ curTime # Null
        gap == IF timed THEN curTime[1] - st.prevTime[1] ELSE 0
    IN [transitions |-> st.transitions + (IF timed THEN 1 ELSE 0),
        interruptions |->
            st.interruptions
              + (IF timed /\ gap >= 0 /\ gap <= InterruptionGapMax
                 THEN 1 ELSE 0),
        prevSpeaker |-> Some(curSpeaker),
        prevTime |-> curTime,
        firstTime |-> IF curTime # Null /\ st.firstTime = Null
                      THEN curTime ELSE st.firstTime,
        lastTime |-> IF curTime # Null THEN curTime ELSE st.lastTime,
        longestSilence |->
            IF timed /\ gap > st.longestSilence.durationSec
            THEN [durationSec |-> gap, fromSec |-> st.prevTime,
                  toSec |-> curTime]
            ELSE st.longestSilence]

\* one iteration of the turn-taking loop
ScanStep(st, t) ==
    LET curSpeaker == SpeakerOf(t)
        curTime == CurTimeOf(t)
        switched == st.prevSpeaker # Null /\ Some(curSpeaker) # st.prevSpeaker
        timed == switched /\ st.prevTime # Null /\ curTime # Null
        gap == IF timed THEN curTime[1] - st.prevTime[1] ELSE 0
    IN [transitions |-> st.transitions + (IF switched THEN 1 ELSE 0),
        interruptions |->
            st.interruptions
              + (IF timed /\ gap >= 0 /\ gap <= InterruptionGapMax
                 THEN 1 ELSE 0),
        prevSpeaker |-> Some(curSpeaker),
        prevTime |-> curTime,
        firstTime |-> IF curTime # Null /\ st.firstTime = Null
                      THEN curTime ELSE st.firstTime,
        lastTime |-> IF curTime # Null THEN curTime ELSE st.lastTime,
        longestSilence |->
            IF timed /\ gap > st.longestSilence.durationSec
            THEN [durationSec |-> gap, fromSec |-> st.prevTime,
                  toSec |-> curTime]
            ELSE st.longestSilence]

RECURSIVE TurnScan(_)
TurnScan(transcripts) ==
    IF transcripts = <<>> THEN ScanInit
    ELSE ScanStep(TurnScan(Front(transcripts)), Last(transcripts))

\* mutant: the window is taken from the start of the log
SliceLast_First(transcripts, windowSize) ==
    IF windowSize = 0 \/ Len(transcripts) <= windowSize THEN transcripts
    ELSE SubSeq(transcripts, 1, windowSize)

\* transcripts.slice(-windowSize), windowSize >= 0; slice(-0) is slice(0),
\* the whole array
SliceLast(transcripts, windowSize) ==
    IF windowSize = 0 \/ Len(transcripts) <= windowSize THEN transcripts
    ELSE SubSeq(transcripts, Len(transcripts) - windowSize + 1,
                Len(transcripts))

Max(a, b) == IF a >= b THEN a ELSE b

computeParticipationMetrics(transcripts, windowSize) ==
    IF Len(transcripts) = 0 THEN Null
    ELSE LET wordCounts == WordCountsOf(transcripts)
             totalWords == SumValues(wordCounts)
             speakingShare == SpeakingShareOf(wordCounts, totalWords)
             dominant == DominantOf(wordCounts, totalWords)
             scan == TurnScan(transcripts)
             recentCounts == WordCountsOf(SliceLast(transcripts, windowSize))
             recent == DominantOf(recentCounts, SumValues(recentCounts))
         IN Some([totalWords |-> totalWords,
                  totalTurns |-> Len(transcripts),
                  speakingShare |-> speakingShare,
                  dominantSpeaker |-> dominant.speaker,
                  dominantShare |-> dominant.share,
                  underrepresented |-> UnderrepresentedOf(speakingShare),
                  transitions |-> scan.transitions,
                  interruptions |-> scan.interruptions,
                  longestSilence |-> scan.longestSilence,
                  window |-> [dominantSpeaker |-> recent.speaker,
                              dominantShare |-> recent.share],
                  durationSec |->
                      IF scan.firstTime # Null /\ scan.lastTime # Null
                      THEN Some(Max(0, scan.lastTime[1] - scan.firstTime[1]))
                      ELSE Null])

(* ------------------------------ bot state ----------------------------- *)
VARIABLES
    botsState,   \* the Map botId -> bot state (Null: no entry)
    now,         \* the server clock, Date.now()
    response,    \* the answer of the last GET /api/bots/:id/state, while no
                 \* webhook event was handled since (Null otherwise); repeat
                 \* tells that it followed another such answer
    log,         \* the utterance log handed to the analytics function
    result,      \* what computeParticipationMetrics returned for it
    called,      \* whether it was called
    requests,    \* the POST /summary requests waiting for the model's answer
    windowSize,  \* the windowSize argument of computeParticipationMetrics
    diagResult,  \* the outcome of computeDiagnostics for the log
    coachResult, \* the outcome of buildCoachWindow for the log
    timeline,    \* what SpeakerTimeline built from the log
    clientNow,   \* the browser clock, Date.now(), in minutes
    lastCoachAt, \* lastCoachAtRef.current
    effect,      \* the run of the live coaching effect that is mounted
    polling,     \* the polling flag of that run
    inflight,    \* the automatic coach requests that were not answered yet
    botId,       \* the frontend's botId state (Null before a bot is created)
    botState,    \* the frontend's botState: the answer it holds, and the
                 \* bot that answer is about
    pollRun,     \* the run of the state polling effect that is mounted
    pending      \* the GET /state answers on their way to the browser

vars == <<botsState, now, response, log, result, called, requests,
          windowSize, diagResult, coachResult, timeline,
          clientNow, lastCoachAt, effect, polling, inflight,
          botId, botState, pollRun, pending>>
serverVars == <<botsState, now, response, requests>>
engineVars == <<log, result, called>>
callVars == <<windowSize, diagResult, coachResult, timeline>>
coachVars == <<clientNow, lastCoachAt, effect, polling, inflight>>
viewVars == <<botId, botState, pollRun, pending>>
offServer == <<engineVars, callVars, coachVars, viewVars>>

BotIds == {"bot1"}

\* an utterance: the webhook stores id, speakerId, speakerName, text and
\* createdAt; the data model also allows startSec and endSec
Utterance(id, speakerId, speakerName, text, createdAt, startSec, endSec) ==
    [id |-> id, speakerId |-> speakerId, speakerName |-> speakerName,
     text |-> text, createdAt |-> createdAt,
     startSec |-> startSec, endSec |-> endSec]

\* the ids of the meeting's participants
ParticipantIds == {"p1", "p2"}

\* a state.participants entry; of its fields the model keeps inCall and
\* isSpeaking (name, email and isHost are display data)
Participant(inCall, isSpeaking) == [inCall |-> inCall, isSpeaking |-> isSpeaking]

\* the state ensureBot creates; participants: {} has no entry for any id
NewBot ==
    [status |-> "created",
     participants |-> [p \in ParticipantIds |-> Null],
     transcripts |-> <<>>,
     partialTranscript |-> <<>>,
     participation |-> Null,
     endedAt |-> Null,
     summary |-> Null,
     diagnostics |-> [totalUtterances |-> 0, totalWords |-> 0,
                      lastUpdatedAt |-> Null, perSpeaker |-> EmptyObj]]

\* ensureBot(botId): the Map after the call
ensureBot(bots, b) ==
    IF bots[b] = Null THEN [bots EXCEPT ![b] = Some(NewBot)] ELSE bots

\* mutant: a speaker's entry counts the utterance but not its words
trackTranscriptDiagnostics_NoSpeakerWords(diag, utterance, clock) ==
    LET text == Trim(utterance.text)
        speaker == SpeakerOf(utterance)
        count == WordCount(text)
        old == IF ObjHas(diag.perSpeaker, speaker)
               THEN diag.perSpeaker.val[speaker]
               ELSE [utterances |-> 0, words |-> 0,
                     firstUtteranceAt |-> utterance.createdAt,
                     lastUtteranceAt |-> utterance.createdAt]
    IN IF text = <<>> THEN diag
       ELSE [totalUtterances |-> diag.totalUtterances + 1,
             totalWords |-> diag.totalWords + count,
             lastUpdatedAt |-> Some(clock),
             perSpeaker |->
                 ObjSet(diag.perSpeaker, speaker,
                        [old EXCEPT !.utterances = @ + 1,
                                    !.lastUtteranceAt = utterance.createdAt])]

\* trackTranscriptDiagnostics(state, utterance): the diagnostics after it
trackTranscriptDiagnostics(diag, utterance, clock) ==
    LET text == Trim(utterance.text)
        speaker == SpeakerOf(utterance)
        count == WordCount(text)
        old == IF ObjHas(diag.perSpeaker, speaker)
               THEN diag.perSpeaker.val[speaker]
               ELSE [utterances |-> 0, words |-> 0,
                     firstUtteranceAt |-> utterance.createdAt,
                     lastUtteranceAt |-> utterance.createdAt]
    IN IF text = <<>> THEN diag
       ELSE [totalUtterances |-> diag.totalUtterances + 1,
             totalWords |-> diag.totalWords + count,
             lastUpdatedAt |-> Some(clock),
             perSpeaker |->
                 ObjSet(diag.perSpeaker, speaker,
                        [old EXCEPT !.utterances = @ + 1,
                                    !.words = @ + count,
                                    !.lastUtteranceAt = utterance.createdAt])]

(* --------------------------- webhook payloads ------------------------- *)
\* one element of inner.words: its text and start_timestamp.absolute
Word(text, absolute) == [text |-> text, absolute |-> absolute]

\* inner.words: no word, an empty word, one word without or with the
\* provider's timestamp, or two words
WordLists ==
    {<<>>,
     <<Word(<<>>, Undefined)>>,
     <<Word(<<"a">>, Undefined)>>,
     <<Word(<<"a">>, IsoString(1200))>>,
     <<Word(<<"a">>, Undefined), Word(<<"a">>, Undefined)>>}

\* inner.participant
Participants ==
    {[id |-> "p1", name |-> "Alice"], [id |-> "p2", name |-> ""]}

\* inner.id: absent in the payloads of the model
InnerIds == {Undefined}

\* String(Date.now())
ClockString(clock) == [kind |-> "decimal", v |-> clock]

\* new Date().toISOString()
ClockIso(clock) == IsoString(clock)

(* ------------------------------ handlers ------------------------------ *)
\* mutant: the log is overwritten with the new utterance
Push_Replace(transcripts, utter) == <<utter>>

\* transcripts.push(utter)
Push(transcripts, utter) == Append(transcripts, utter)

\* mutant: the partial text is written to every existing bot
WebhookPartialData_AllBots(b, words) ==
    LET bots == ensureBot(botsState, b)
        text == Trim(JoinWords(words))
    IN /\ botsState' = [x \in DOMAIN bots |->
                           IF bots[x] = Null THEN Null
                           ELSE Some([bots[x][1] EXCEPT
                                        !.partialTranscript = text])]
       /\ response' = Null
       /\ UNCHANGED <<now, requests, offServer>>

\* POST /api/recall/webhook, event transcript.partial_data
WebhookPartialData(b, words) ==
    LET bots == ensureBot(botsState, b)
        text == Trim(JoinWords(words))
    IN /\ botsState' = [bots EXCEPT ![b] =
                           Some([bots[b][1] EXCEPT !.partialTranscript = text])]
       /\ response' = Null
       /\ UNCHANGED <<now, requests, offServer>>

\* mutant: an utterance is logged whatever its text
WebhookTranscriptData_LogEmpty(b, words, participant, innerId) ==
    LET bots == ensureBot(botsState, b)
        state == bots[b][1]
        text == Trim(JoinWords(words))
        createdAt == IF words # <<>>
                     THEN OrElse(words[1].absolute, ClockIso(now))
                     ELSE ClockIso(now)
        utter == Utterance(OrElse(innerId, ClockString(now)),
                           participant.id,
                           IF participant.name = "" THEN "Unknown"
                           ELSE participant.name,
                           text, createdAt, Undefined, Undefined)
    IN /\ Len(state.transcripts) < MaxTranscripts
       /\ botsState' = [bots EXCEPT ![b] =
             Some([state EXCEPT
                     !.partialTranscript = <<>>,
                     !.transcripts = Push(state.transcripts, utter),
                     !.diagnostics =
                         trackTranscriptDiagnostics(@, utter, now)])]
       /\ response' = Null
       /\ UNCHANGED <<now, requests, offServer>>

\* mutant: the final utterance does not clear the partial one
WebhookTranscriptData_KeepPartial(b, words, participant, innerId) ==
    LET bots == ensureBot(botsState, b)
        state == bots[b][1]
        text == Trim(JoinWords(words))
        createdAt == IF words # <<>>
                     THEN OrElse(words[1].absolute, ClockIso(now))
                     ELSE ClockIso(now)
        utter == Utterance(OrElse(innerId, ClockString(now)),
                           participant.id,
                           IF participant.name = "" THEN "Unknown"
                           ELSE participant.name,
                           text, createdAt, Undefined, Undefined)
    IN /\ text # <<>> => Len(state.transcripts) < MaxTranscripts
       /\ botsState' = [bots EXCEPT ![b] =
             Some(IF text = <<>>
                  THEN state
                  ELSE [state EXCEPT
                          !.transcripts = Push(state.transcripts, utter),
                          !.diagnostics =
                              trackTranscriptDiagnostics(@, utter, now)])]
       /\ response' = Null
       /\ UNCHANGED <<now, requests, offServer>>

\* POST /api/recall/webhook, event transcript.data
WebhookTranscriptData(b, words, participant, innerId) ==
    LET bots == ensureBot(botsState, b)
        state == bots[b][1]
        text == Trim(JoinWords(words))
        createdAt == IF words # <<>>
                     THEN OrElse(words[1].absolute, ClockIso(now))
                     ELSE ClockIso(now)
        utter == Utterance(OrElse(innerId, ClockString(now)),
                           participant.id,
                           IF participant.name = "" THEN "Unknown"
                           ELSE participant.name,
                           text, createdAt, Undefined, Undefined)
    IN /\ text # <<>> => Len(state.transcripts) < MaxTranscripts
       /\ botsState' = [bots EXCEPT ![b] =
             Some(IF text = <<>>
                  THEN [state EXCEPT !.partialTranscript = <<>>]
                  ELSE [state EXCEPT
                          !.partialTranscript = <<>>,
                          !.transcripts = Push(state.transcripts, utter),
                          !.diagnostics =
                              trackTranscriptDiagnostics(@, utter, now)])]
       /\ response' = Null
       /\ UNCHANGED <<now, requests, offServer>>

\* mutant: the answer is serialised before the fresh snapshot is stored
GetBotState_Stale(b) ==
    /\ IF botsState[b] = Null
       THEN /\ response' = [status |-> 404, body |-> Null,
                             repeat |-> response # Null]
            /\ UNCHANGED botsState
       ELSE LET bot == botsState[b][1]
                participation ==
                    computeParticipationMetrics(bot.transcripts,
                                                DefaultWindowSize)
                after == IF participation # Null
                         THEN [bot EXCEPT !.participation = participation]
                         ELSE bot
            IN /\ botsState' = [botsState EXCEPT ![b] = Some(after)]
               /\ response' = [status |-> 200, body |-> Some(bot),
                                repeat |-> response # Null]
    /\ UNCHANGED <<now, requests, offServer>>

\* GET /api/bots/:id/state
GetBotState(b) ==
    /\ IF botsState[b] = Null
       THEN /\ response' = [status |-> 404, body |-> Null,
                             repeat |-> response # Null]
            /\ UNCHANGED botsState
       ELSE LET bot == botsState[b][1]
                participation ==
                    computeParticipationMetrics(bot.transcripts,
                                                DefaultWindowSize)
                after == IF participation # Null
                         THEN [bot EXCEPT !.participation = participation]
                         ELSE bot
            IN /\ botsState' = [botsState EXCEPT ![b] = Some(after)]
               /\ response' = [status |-> 200, body |-> Some(after),
                                repeat |-> response # Null]
    /\ UNCHANGED <<now, requests, offServer>>

\* the server clock advances
Tick ==
    /\ now < MaxClock
    /\ now' = now + 1
    /\ UNCHANGED <<botsState, response, requests, offServer>>

ServerInit ==
    /\ botsState = [b \in BotIds |-> Null]
    /\ now = 0
    /\ response = Null
    /\ requests = {}

EngineIdle ==
    /\ log = <<>>
    /\ result = Null
    /\ called = FALSE

\* no other analytics call was made
CallIdle ==
    /\ windowSize = DefaultWindowSize
    /\ diagResult = Null
    /\ coachResult = Null
    /\ timeline = Null

\* no bot was created from the browser
ViewIdle ==
    /\ botId = Null
    /\ botState = Null
    /\ pollRun = 0
    /\ pending = {}

\* the live view is not mounted
CoachIdle ==
    /\ clientNow = 0
    /\ lastCoachAt = 0
    /\ effect = 0
    /\ polling = FALSE
    /\ inflight = {}
    /\ ViewIdle

Init == ServerInit /\ EngineIdle /\ CallIdle /\ CoachIdle

Next ==
    \/ \E b \in BotIds, words \in WordLists : WebhookPartialData(b, words)
    \/ \E b \in BotIds, words \in WordLists, p \in Participants,
          i \in InnerIds : WebhookTranscriptData(b, words, p, i)
    \/ \E b \in BotIds : GetBotState(b)
    \/ Tick

Spec == Init /\ [][Next]_vars

(* ------------------- the analytics function on its own ---------------- *)
SpeakerNames == {"Alice", "Bob", "1", ""}
Texts == {<<>>, <<" ">>, <<"a">>, <<"a", " ", "a">>}

\* utterances without any timing, of every speaker and text
UntimedUtterances ==
    {Utterance(Undefined, Undefined, n, x, Undefined, Undefined, Undefined) :
        n \in SpeakerNames, x \in Texts}

\* startSec and endSec of an utterance, in milliseconds
Timings ==
    {<<Undefined, Undefined>>,
     <<Num(0), Num(1000)>>, <<Num(1200), Num(3000)>>,
     <<Num(21000), Num(22000)>>,
     <<Num(0), Num(10000)>>, <<Num(10200), Undefined>>,
     <<Num(1500), Undefined>>, <<Num(1501), Undefined>>}

\* one-word utterances of two speakers with every timing
TimedUtterances ==
    {Utterance(Undefined, Undefined, n, <<"a">>, Undefined, tm[1], tm[2]) :
        n \in {"Alice", "Bob"}, tm \in Timings}

LogsOver(utterances) ==
    UNION {[1..n -> utterances] : n \in 0..MaxLog}

ServerIdle == ServerInit

\* the call computeParticipationMetrics(log)
Compute ==
    /\ ~called
    /\ result' = computeParticipationMetrics(log, DefaultWindowSize)
    /\ called' = TRUE
    /\ UNCHANGED <<log, serverVars, callVars, coachVars, viewVars>>

EngineNext == Compute

AggregateInit ==
    /\ ServerIdle
    /\ CallIdle
    /\ CoachIdle
    /\ log \in LogsOver(UntimedUtterances)
    /\ result = Null
    /\ called = FALSE

SignalInit ==
    /\ ServerIdle
    /\ CallIdle
    /\ CoachIdle
    /\ log \in LogsOver(TimedUtterances)
    /\ result = Null
    /\ called = FALSE

SpecAggregate == AggregateInit /\ [][EngineNext]_vars
SpecSignals == SignalInit /\ [][EngineNext]_vars

(* ------------------- the summarization diagnostics -------------------- *)
\* what a call did: it threw, or it returned a value
Raised == [threw |-> TRUE]
Returned(v) == [threw |-> FALSE, value |-> v]

\* t.text.split(/\s+/) throws a TypeError when t.text is undefined
SplitThrows(transcripts) ==
    \E i \in 1..Len(transcripts) : transcripts[i].text = MissingText

RECURSIVE SplitCountsOf_Utterances(_)
\* mutant: utterances are counted instead of words
SplitCountsOf_Utterances(transcripts) ==
    IF transcripts = <<>> THEN EmptyObj
    ELSE LET prev == SplitCountsOf_Utterances(Front(transcripts))
             t == Last(transcripts)
             name == SpeakerOf(t)
         IN ObjSet(prev, name, ObjGetOr0(prev, name) + 1)

RECURSIVE SplitCountsOf(_)
\* transcripts.forEach: wordCounts[name] = (wordCounts[name] || 0) +
\*   t.text.split(/\s+/).filter(Boolean).length
SplitCountsOf(transcripts) ==
    IF transcripts = <<>> THEN EmptyObj
    ELSE LET prev == SplitCountsOf(Front(transcripts))
             t == Last(transcripts)
             name == SpeakerOf(t)
         IN ObjSet(prev, name, ObjGetOr0(prev, name) + WordCount(t.text))

\* mutant: a share equal to the threshold is listed too
NamesBelow_Inclusive(wordShare) ==
    SelectSeq(ObjectKeys(wordShare),
              LAMBDA name : ~RatGT(wordShare.val[name], Ratio(1, 10)))

\* Object.entries(wordShare).filter(([_, s]) => s < 0.1).map(([name]) => name)
NamesBelow(wordShare) ==
    SelectSeq(ObjectKeys(wordShare),
              LAMBDA name : RatLT(wordShare.val[name], Ratio(1, 10)))

\* computeDiagnostics(state), of state.transcripts
computeDiagnostics(transcripts) ==
    IF SplitThrows(transcripts) THEN Raised
    ELSE LET wordCounts == SplitCountsOf(transcripts)
             totalWords == SumValues(wordCounts)
             wordShare == SpeakingShareOf(wordCounts, totalWords)
         IN Returned([totalWords |-> totalWords,
                      totalUtterances |-> Len(transcripts),
                      speakerWordShare |-> wordShare,
                      underrepresented |-> NamesBelow(wordShare)])

\* `[${t.createdAt}] ${t.speakerName}: ${t.text}`, one line per utterance
LinesOf(transcripts) ==
    [i \in 1..Len(transcripts) |->
        <<transcripts[i].createdAt, transcripts[i].speakerName,
          transcripts[i].text>>]

\* buildCoachWindow(state, maxTurns), of state.transcripts
buildCoachWindow(transcripts, maxTurns) ==
    LET recent == SliceLast(transcripts, maxTurns)
    IN IF recent = <<>>
       THEN Returned([windowText |-> <<>>, windowWordShare |-> EmptyObj,
                      windowDominantSpeaker |-> Null])
       ELSE IF SplitThrows(recent) THEN Raised
       ELSE LET wordCounts == SplitCountsOf(recent)
                total == SumValues(wordCounts)
            IN Returned([windowText |-> LinesOf(recent),
                         windowWordShare |-> SpeakingShareOf(wordCounts, total),
                         windowDominantSpeaker |->
                             DominantOf(wordCounts, total).speaker])

(* --------------------- stop, coach and summary requests --------------- *)
\* a request whose handler awaits the answer of the language model: what
\* its prompt was built from
Request(kind, b, diagnostics, participation, transcriptText, window) ==
    [kind |-> kind, bot |-> b, diagnostics |-> diagnostics,
     participation |-> participation, transcriptText |-> transcriptText,
     window |-> window]

\* the model keeps one awaiting request per bot
Awaiting(b) == \E r \in requests : r.bot = b

\* Object.values(state.participants).forEach: inCall = false,
\* isSpeaking = false
AllLeft(participants) ==
    [p \in DOMAIN participants |->
        IF participants[p] = Null THEN Null
        ELSE Some(Participant(FALSE, FALSE))]

\* mutant: stopping the bot drops its utterance log
StopBot_ClearLog(b) ==
    /\ botsState[b] # Null
    /\ botsState' = [botsState EXCEPT ![b] =
           Some([botsState[b][1] EXCEPT
                    !.status = "ended",
                    !.endedAt = Some(ClockIso(now)),
                    !.participants = AllLeft(@),
                    !.transcripts = <<>>])]
    /\ UNCHANGED <<now, response, requests, offServer>>

\* POST /api/bots/:id/stop, once both calls to the provider returned
StopBot(b) ==
    /\ botsState[b] # Null
    /\ botsState' = [botsState EXCEPT ![b] =
           Some([botsState[b][1] EXCEPT
                    !.status = "ended",
                    !.endedAt = Some(ClockIso(now)),
                    !.participants = AllLeft(@)])]
    /\ UNCHANGED <<now, response, requests, offServer>>

\* POST /api/bots/:id/coach up to its await: the prompt is built
CoachBegin(b) ==
    /\ botsState[b] # Null
    /\ ~Awaiting(b)
    /\ requests' = requests \cup
          {Request("coach", b, Null, Null, Null,
                   Some(buildCoachWindow(botsState[b][1].transcripts,
                                         CoachWindowTurns)))}
    /\ UNCHANGED <<botsState, now, response, offServer>>

\* the rest of POST /api/bots/:id/coach: the hint is sent back
CoachEnd(r) ==
    /\ r.kind = "coach"
    /\ requests' = requests \ {r}
    /\ UNCHANGED <<botsState, now, response, offServer>>

\* mutant: the participation metrics are taken from an older log than the
\* diagnostics
SummaryBegin_Torn(b) ==
    /\ botsState[b] # Null
    /\ ~Awaiting(b)
    /\ LET transcripts == botsState[b][1].transcripts
       IN requests' = requests \cup
            {Request("summary", b,
                     Some(computeDiagnostics(transcripts)),
                     computeParticipationMetrics(Front(transcripts),
                                                 DefaultWindowSize),
                     Some(LinesOf(transcripts)), Null)}
    /\ UNCHANGED <<botsState, now, response, offServer>>

\* POST /api/bots/:id/summary up to its await: diagnostics, participation
\* and transcriptText are computed and put into the prompt
SummaryBegin(b) ==
    /\ botsState[b] # Null
    /\ ~Awaiting(b)
    /\ LET transcripts == botsState[b][1].transcripts
       IN requests' = requests \cup
            {Request("summary", b,
                     Some(computeDiagnostics(transcripts)),
                     computeParticipationMetrics(transcripts,
                                                 DefaultWindowSize),
                     Some(LinesOf(transcripts)), Null)}
    /\ UNCHANGED <<botsState, now, response, offServer>>

\* the rest of POST /api/bots/:id/summary: the summary is stored when the
\* model answered (ok), nothing is when the call failed
SummaryEnd(r, ok) ==
    /\ r.kind = "summary"
    /\ requests' = requests \ {r}
    /\ botsState' =
          IF ok
          THEN [botsState EXCEPT ![r.bot] =
                  Some([botsState[r.bot][1] EXCEPT !.summary =
                          Some([text |-> "summary",
                                createdAt |-> ClockIso(now)])])]
          ELSE botsState
    /\ UNCHANGED <<now, response, offServer>>

(* --------------------------- participant events ----------------------- *)
\* inner.participant || outer.participant of a participant event: absent,
\* or a participant with its id
EventParticipants == {Null} \cup {Some(p) : p \in ParticipantIds}

\* p.in_call of an update event: absent, true or false
InCallFields == {"absent", "true", "false"}

\* the bot state after a participant event wrote entry e for participant p
WithParticipant(state, p, e) ==
    [state EXCEPT !.participants = [@ EXCEPT ![p] = Some(e)]]

\* the webhook's answer to a participant event: the bot exists afterwards,
\* with the state the event's case leaves
ParticipantEvent(b, after) ==
    /\ botsState' = [ensureBot(botsState, b) EXCEPT ![b] = Some(after)]
    /\ response' = Null
    /\ UNCHANGED <<now, requests, offServer>>

\* POST /api/recall/webhook, event participant_events.join
WebhookJoin(b, payload) ==
    LET state == ensureBot(botsState, b)[b][1]
    IN ParticipantEvent(b,
          IF payload = Null THEN state
          ELSE WithParticipant(state, payload[1], Participant(TRUE, FALSE)))

\* POST /api/recall/webhook, event participant_events.leave
WebhookLeave(b, payload) ==
    LET state == ensureBot(botsState, b)[b][1]
    IN ParticipantEvent(b,
          IF payload = Null \/ state.participants[payload[1]] = Null
          THEN state
          ELSE WithParticipant(state, payload[1], Participant(FALSE, FALSE)))

\* POST /api/recall/webhook, event participant_events.update
WebhookUpdate(b, payload, inCallField) ==
    LET state == ensureBot(botsState, b)[b][1]
    IN ParticipantEvent(b,
          IF payload = Null THEN state
          ELSE IF state.participants[payload[1]] = Null
          THEN WithParticipant(state, payload[1], Participant(TRUE, FALSE))
          ELSE LET existing == state.participants[payload[1]][1]
               IN WithParticipant(state, payload[1],
                     IF inCallField = "absent" THEN existing
                     ELSE [existing EXCEPT
                             !.inCall = (inCallField = "true")]))

\* POST /api/recall/webhook, event participant_events.speech_on
WebhookSpeechOn(b, payload) ==
    LET state == ensureBot(botsState, b)[b][1]
    IN ParticipantEvent(b,
          IF payload = Null \/ state.participants[payload[1]] = Null
          THEN state
          ELSE WithParticipant(state, payload[1],
                  [state.participants[payload[1]][1] EXCEPT
                      !.isSpeaking = TRUE]))

\* POST /api/recall/webhook, event participant_events.speech_off
WebhookSpeechOff(b, payload) ==
    LET state == ensureBot(botsState, b)[b][1]
    IN ParticipantEvent(b,
          IF payload = Null \/ state.participants[payload[1]] = Null
          THEN state
          ELSE WithParticipant(state, payload[1],
                  [state.participants[payload[1]][1] EXCEPT
                      !.isSpeaking = FALSE]))

\* participant events, final utterances and the stop request of one bot
ParticipantsNext ==
    \/ \E b \in BotIds, q \in EventParticipants : WebhookJoin(b, q)
    \/ \E b \in BotIds, q \in EventParticipants : WebhookLeave(b, q)
    \/ \E b \in BotIds, q \in EventParticipants, f \in InCallFields :
          WebhookUpdate(b, q, f)
    \/ \E b \in BotIds, q \in EventParticipants : WebhookSpeechOn(b, q)
    \/ \E b \in BotIds, q \in EventParticipants : WebhookSpeechOff(b, q)
    \/ \E b \in BotIds, p \in Participants, i \in InnerIds :
          WebhookTranscriptData(b, <<Word(<<"a">>, Undefined)>>, p, i)
    \/ \E b \in BotIds : StopBot(b)

SpecParticipants == Init /\ [][ParticipantsNext]_vars

(* ------------------------------ two sessions ------------------------- *)
SessionBotIds == {"bot1", "bot2"}

\* POST /api/recall/webhook with a payload that names no bot: logged and
\* answered ok before ensureBot
WebhookNoBotId ==
    /\ response' = Null
    /\ UNCHANGED <<botsState, now, requests, offServer>>

\* an event or request addressed to bot b
AddressedTo(b) ==
    \/ WebhookPartialData(b, <<Word(<<"a">>, Undefined)>>)
    \/ \E i \in InnerIds :
          WebhookTranscriptData(b, <<Word(<<"a">>, Undefined)>>,
                                [id |-> "p1", name |-> "Alice"], i)
    \/ WebhookJoin(b, Some("p1"))
    \/ GetBotState(b)
    \/ StopBot(b)

SessionsNext ==
    \/ \E b \in SessionBotIds : AddressedTo(b)
    \/ WebhookNoBotId

SessionsInit ==
    /\ botsState = [b \in SessionBotIds |-> Null]
    /\ now = 0
    /\ response = Null
    /\ requests = {}
    /\ EngineIdle
    /\ CallIdle
    /\ CoachIdle

SpecSessions == SessionsInit /\ [][SessionsNext]_vars

\* the final utterances of this specification: no word, or one word; its
\* requests all arrive at one reading of the server clock
RequestWordLists == {<<>>, <<Word(<<"a">>, Undefined)>>}

RequestsNext ==
    \/ \E b \in BotIds, words \in WordLists : WebhookPartialData(b, words)
    \/ \E b \in BotIds, words \in RequestWordLists, p \in Participants,
          i \in InnerIds : WebhookTranscriptData(b, words, p, i)
    \/ \E b \in BotIds : GetBotState(b)
    \/ \E b \in BotIds : StopBot(b)
    \/ \E b \in BotIds : CoachBegin(b)
    \/ \E r \in requests : CoachEnd(r)
    \/ \E b \in BotIds : SummaryBegin(b)
    \/ \E r \in requests, ok \in BOOLEAN : SummaryEnd(r, ok)

SpecRequests == Init /\ [][RequestsNext]_vars

RECURSIVE WordsText(_)
\* a text of n words
WordsText(n) ==
    IF n = 0 THEN <<>>
    ELSE IF n = 1 THEN <<"a">>
    ELSE WordsText(n - 1) \o <<" ", "a">>

\* utterances of two speakers with no, one, four or nine words: shares of
\* exactly 1/5 and 1/10 occur
SizedUtterances ==
    {Utterance(Undefined, Undefined, n, WordsText(k),
               Undefined, Undefined, Undefined) :
        n \in {"Alice", "Bob"}, k \in {0, 1, 4, 9}}

\* POST /api/bots/:id/summary computes both aggregates of the same log:
\* computeDiagnostics(state) and computeParticipationMetrics(transcripts)
Diagnose ==
    /\ ~called
    /\ diagResult' = Some(computeDiagnostics(log))
    /\ result' = computeParticipationMetrics(log, DefaultWindowSize)
    /\ called' = TRUE
    /\ UNCHANGED <<log, serverVars, coachVars, viewVars,
                   windowSize, coachResult, timeline>>

ThresholdInit ==
    /\ ServerIdle
    /\ CallIdle
    /\ CoachIdle
    /\ log \in LogsOver(SizedUtterances)
    /\ result = Null
    /\ called = FALSE

SpecThreshold == ThresholdInit /\ [][Diagnose]_vars

(* ------------------------ the three functions together --------------- *)
\* utterances of a named and an unnamed speaker whose text is missing, empty
\* or one word, with or without a start time
ShapedUtterances ==
    {Utterance(Undefined, Undefined, n, x, Undefined, st, Undefined) :
        n \in {"Alice", ""}, x \in {MissingText, <<>>, <<"a">>},
        st \in {Undefined, Num(0)}}

\* computeParticipationMetrics, computeDiagnostics and buildCoachWindow are
\* each called with the log
Analyse ==
    /\ ~called
    /\ result' = computeParticipationMetrics(log, DefaultWindowSize)
    /\ diagResult' = Some(computeDiagnostics(log))
    /\ coachResult' = Some(buildCoachWindow(log, CoachWindowTurns))
    /\ called' = TRUE
    /\ UNCHANGED <<log, serverVars, coachVars, viewVars, windowSize, timeline>>

ShapesInit ==
    /\ ServerIdle
    /\ CallIdle
    /\ CoachIdle
    /\ log \in LogsOver(ShapedUtterances)
    /\ result = Null
    /\ called = FALSE

SpecShapes == ShapesInit /\ [][Analyse]_vars

(* ----------------------------- recent window ------------------------- *)
\* two-word utterances of Alice and one-word utterances of Bob
WindowUtterances ==
    {Utterance(Undefined, Undefined, "Alice", <<"a", " ", "a">>,
               Undefined, Undefined, Undefined),
     Utterance(Undefined, Undefined, "Bob", <<"a">>,
               Undefined, Undefined, Undefined)}

\* the call computeParticipationMetrics(log, windowSize)
ComputeWindowed ==
    /\ ~called
    /\ result' = computeParticipationMetrics(log, windowSize)
    /\ called' = TRUE
    /\ UNCHANGED <<log, windowSize, serverVars, coachVars, viewVars,
                   diagResult, coachResult, timeline>>

WindowInit ==
    /\ ServerIdle
    /\ CoachIdle
    /\ log \in UNION {[1..n -> WindowUtterances] : n \in 0..MaxWindowLog}
    /\ windowSize \in {0, 1, 2, DefaultWindowSize}
    /\ result = Null
    /\ called = FALSE
    /\ diagResult = Null
    /\ coachResult = Null
    /\ timeline = Null

SpecWindow == WindowInit /\ [][ComputeWindowed]_vars

(* --------------------------- speaker timeline ------------------------- *)
\* Number.isFinite(x): numbers only, no coercion of strings
IsFinite(x) == x.kind = "number"

\* mutant: the utterances with a finite endSec are kept
TimedOf_Ended(transcripts) ==
    SelectSeq(transcripts, LAMBDA t : IsFinite(t.endSec))

\* (transcripts || []).filter((t) => Number.isFinite(t.startSec))
TimedOf(transcripts) ==
    SelectSeq(transcripts, LAMBDA t : IsFinite(t.startSec))

\* Math.min(...xs) and Math.max(...xs) of a non-empty list
MinOfAll(xs) == CHOOSE x \in Range(xs) : \A y \in Range(xs) : x <= y
MaxOfAll(xs) == CHOOSE x \in Range(xs) : \A y \in Range(xs) : x >= y

\* Number.isFinite(t.endSec) ? t.endSec : t.startSec + 1, in milliseconds
EndOrNext(t) == IF IsFinite(t.endSec) THEN t.endSec.v ELSE t.startSec.v + 1000

\* the segment pushed for one timed utterance
SegmentOf(t, baseStart, span) ==
    LET start == t.startSec.v - baseStart
        end == IF IsFinite(t.endSec) THEN t.endSec.v - baseStart
               ELSE start + 1000
        rawDur == Max(0, end - start)
        dur == Max(500, rawDur)
        startPct == Ratio(start * 100, span)
        widthPct == Ratio(dur * 100, span)
        hitEnd == RatAdd(startPct, Ratio(rawDur * 100, span))
        hundred == Ratio(100, 1)
    IN [startPct |-> startPct,
        widthPct |-> IF RatLT(hundred, widthPct) THEN hundred ELSE widthPct,
        hitEndPct |-> IF RatLT(hundred, hitEnd) THEN hundred ELSE hitEnd,
        speaker |-> SpeakerOf(t),
        text |-> IF t.text # MissingText /\ Len(t.text) > 40
                 THEN SubSeq(t.text, 1, 40) \o <<".", ".", ".">>
                 ELSE TextOrEmpty(t)]

RECURSIVE PerSpeakerOf(_, _, _)
\* timed.forEach: perSpeaker[speaker].push(segment)
PerSpeakerOf(timed, baseStart, span) ==
    IF timed = <<>> THEN EmptyObj
    ELSE LET prev == PerSpeakerOf(Front(timed), baseStart, span)
             t == Last(timed)
             speaker == SpeakerOf(t)
             before == IF ObjHas(prev, speaker) THEN prev.val[speaker]
                       ELSE <<>>
         IN ObjSet(prev, speaker,
                   Append(before, SegmentOf(t, baseStart, span)))

\* SpeakerTimeline({ transcripts }): null, or the span and the rows drawn
SpeakerTimeline(transcripts) ==
    LET timed == TimedOf(transcripts)
    IN IF timed = <<>> THEN Null
       ELSE LET baseStart == MinOfAll([i \in 1..Len(timed) |->
                                          timed[i].startSec.v])
                totalEnd == MaxOfAll([i \in 1..Len(timed) |->
                                         EndOrNext(timed[i])])
                span == Max(1000, totalEnd - baseStart)
            IN Some([span |-> span,
                     perSpeaker |-> PerSpeakerOf(timed, baseStart, span)])

\* startSec and endSec of the utterances handed to the timeline: none, an
\* utterance with its end, one that ends before it starts, one without end,
\* and one whose startSec is not a number
TimelineTimings ==
    {<<Undefined, Undefined>>,
     <<Num(0), Num(1000)>>,
     <<Num(10000), Num(2000)>>,
     <<Num(2000), Undefined>>,
     <<BadString, Num(1000)>>}

TimelineUtterances ==
    {Utterance(Undefined, Undefined, n, <<"a">>, Undefined, tm[1], tm[2]) :
        n \in {"Alice", "Bob"}, tm \in TimelineTimings}

\* the live view renders <SpeakerTimeline transcripts={transcripts} />
Render ==
    /\ ~called
    /\ timeline' = SpeakerTimeline(log)
    /\ called' = TRUE
    /\ UNCHANGED <<log, result, serverVars, coachVars, viewVars,
                   windowSize, diagResult, coachResult>>

TimelineInit ==
    /\ ServerIdle
    /\ CallIdle
    /\ CoachIdle
    /\ log \in LogsOver(TimelineUtterances)
    /\ result = Null
    /\ called = FALSE

SpecTimeline == TimelineInit /\ [][Render]_vars

(* ------------------------ the live coaching effect -------------------- *)
\* An automatic coach request: the effect run that issued it, when, and
\* lastCoachAtRef.current at that moment. The runs of the effect are
\* numbered by transcripts.length, the dependency that re-runs it; the
\* clock counts minutes, the period of setInterval(pollCoach, 60000).
CoachRequest(run, at, since) == [run |-> run, issuedAt |-> at, since |-> since]

\* pollCoach() of the mounted run at time t: it returns early when that
\* run's polling flag is set or the last accepted answer is less than
\* MIN_SPACING_MS old, and issues a request otherwise
PollCoach(run, flag, t) ==
    IF flag \/ t - lastCoachAt < MinSpacing
    THEN /\ polling' = flag
         /\ inflight' = inflight
    ELSE /\ polling' = TRUE
         /\ inflight' = inflight \cup {CoachRequest(run, t, lastCoachAt)}

\* the state poll delivers a longer transcript list: the effect's cleanup
\* cancels the mounted run and clears its interval, and a new run starts
\* with let polling = false and calls pollCoach() at once
NewTranscript ==
    /\ effect < MaxTranscripts
    /\ effect' = effect + 1
    /\ PollCoach(effect + 1, FALSE, clientNow)
    /\ UNCHANGED <<clientNow, lastCoachAt, serverVars, engineVars, callVars,
                   viewVars>>

\* a minute passes and the interval of the mounted run calls pollCoach()
TimerTick ==
    /\ clientNow < MaxMinutes
    /\ clientNow' = clientNow + 1
    /\ IF effect = 0
       THEN UNCHANGED <<polling, inflight>>
       ELSE PollCoach(effect, polling, clientNow + 1)
    /\ UNCHANGED <<effect, lastCoachAt, serverVars, engineVars, callVars,
                   viewVars>>

\* the answer to a request arrives: a hint or { hint: null } with res.ok is
\* accepted unless the run was cancelled, which stamps lastCoachAtRef; the
\* finally block clears the polling flag of the run that issued it
CoachResponse(r, ok) ==
    /\ inflight' = inflight \ {r}
    /\ lastCoachAt' = IF r.run = effect /\ ok THEN clientNow ELSE lastCoachAt
    /\ polling' = IF r.run = effect THEN FALSE ELSE polling
    /\ UNCHANGED <<effect, clientNow, serverVars, engineVars, callVars,
                   viewVars>>

CoachNext ==
    \/ NewTranscript
    \/ TimerTick
    \/ \E r \in inflight, ok \in BOOLEAN : CoachResponse(r, ok)

\* the live view is open with the coach enabled and no transcript yet;
\* Date.now() is far beyond MIN_SPACING_MS while lastCoachAtRef is 0
CoachInit ==
    /\ ServerIdle
    /\ EngineIdle
    /\ CallIdle
    /\ clientNow = MinSpacing
    /\ lastCoachAt = 0
    /\ effect = 0
    /\ polling = FALSE
    /\ inflight = {}
    /\ ViewIdle

SpecCoach == CoachInit /\ [][CoachNext]_vars

(* ------------------------ the state polling effect -------------------- *)
\* an answer of GET /state on its way: the effect run whose fetchState
\* asked, the bot of its URL, and the body
StateAnswer(run, b, data) == [run |-> run, bot |-> b, data |-> data]

\* handleCreateBot: POST /api/bots registers a bot with a fresh id, then
\* setBotId(data.botId) and setBotState(null); the change of botId runs the
\* effect's cleanup (cancelled = true, clearInterval) and mounts a new run
CreateBot(b) ==
    /\ botsState[b] = Null
    /\ botsState' = ensureBot(botsState, b)
    /\ botId' = Some(b)
    /\ botState' = Null
    /\ pollRun' = pollRun + 1
    /\ UNCHANGED <<now, response, requests, pending,
                   engineVars, callVars, coachVars>>

\* fetchState() of the mounted run, called when the run starts and by its
\* interval: the server answers GET /state and the answer travels back
FetchState ==
    /\ botId # Null
    /\ Cardinality(pending) < MaxPending
    /\ LET b == botId[1]
           bot == botsState[b][1]
           participation ==
               computeParticipationMetrics(bot.transcripts, DefaultWindowSize)
           after == IF participation # Null
                    THEN [bot EXCEPT !.participation = participation]
                    ELSE bot
       IN /\ botsState' = [botsState EXCEPT ![b] = Some(after)]
          /\ response' = [status |-> 200, body |-> Some(after),
                           repeat |-> response # Null]
          /\ pending' = pending \cup {StateAnswer(pollRun, b, after)}
    /\ UNCHANGED <<now, requests, botId, botState, pollRun,
                   engineVars, callVars, coachVars>>

\* an answer arrives, in any order: if (!cancelled) setBotState(data)
StateArrives(r) ==
    /\ pending' = pending \ {r}
    /\ botState' = IF r.run = pollRun
                   THEN Some([bot |-> r.bot, data |-> r.data])
                   ELSE botState
    /\ UNCHANGED <<botId, pollRun, serverVars,
                   engineVars, callVars, coachVars>>

PollNext ==
    \/ \E b \in SessionBotIds : CreateBot(b)
    \/ FetchState
    \/ \E r \in pending : StateArrives(r)
    \/ \E b \in SessionBotIds, i \in InnerIds :
          /\ botsState[b] # Null
          /\ WebhookTranscriptData(b, <<Word(<<"a">>, Undefined)>>,
                                   [id |-> "p1", name |-> "Alice"], i)

SpecPoll == SessionsInit /\ [][PollNext]_vars

(* --------------------- how the frontend reads a snapshot -------------- *)
\* const { interruptionCounts = {} } = participation
InterruptionCountsOf(snapshot) ==
    IF "interruptionCounts" \in DOMAIN snapshot
    THEN snapshot.interruptionCounts ELSE EmptyObj

\* Array.isArray(silence.periods) ? silence.periods : none, silence = {}
SilencePeriodsOf(snapshot) ==
    IF "silence" \in DOMAIN snapshot THEN snapshot.silence.periods ELSE <<>>

\* Number.isFinite(turnTakingPerMin) ? the rate : "not enough timing data"
TurnTakingPerMinOf(snapshot) ==
    IF "turnTakingPerMin" \in DOMAIN snapshot
    THEN snapshot.turnTakingPerMin ELSE Null

\* longestSilence ? "<duration> between <from> and <to>" : "none longer
\* than ~15s so far": whether a longest silence is displayed
LongestSilenceShown(snapshot) ==
    "longestSilence" \in DOMAIN snapshot /\ snapshot.longestSilence # Null

\* const { balance = { status: 'balanced', reasons: [] } } = participation
BalanceOf(snapshot) ==
    IF "balance" \in DOMAIN snapshot THEN snapshot.balance
    ELSE [status |-> "balanced", reasons |-> <<>>]

\* balance.status === 'needs_attention' ? 'Needs attention' : 'Balanced'
BalanceLabel(snapshot) ==
    IF BalanceOf(snapshot).status = "needs_attention" THEN "Needs attention"
    ELSE "Balanced"

(* ------------------------- reference definitions ---------------------- *)
\* the speakers of a log, and what each said, read off the log directly
SpeakersIn(l) == {SpeakerOf(l[i]) : i \in 1..Len(l)}

RECURSIVE WordsSpokenBy(_, _)
WordsSpokenBy(l, name) ==
    IF l = <<>> THEN 0
    ELSE WordsSpokenBy(Front(l), name)
           + (IF SpeakerOf(Last(l)) = name THEN WordCount(Last(l).text) ELSE 0)

RECURSIVE WordsSpoken(_)
WordsSpoken(l) ==
    IF l = <<>> THEN 0 ELSE WordsSpoken(Front(l)) + WordCount(Last(l).text)

FirstTurnOf(l, name) ==
    CHOOSE i \in 1..Len(l) :
        /\ SpeakerOf(l[i]) = name
        /\ \A j \in 1..(i - 1) : SpeakerOf(l[j]) # name

\* the speakers with the largest word count
TopSpeakers(l) ==
    {n \in SpeakersIn(l) :
        \A m \in SpeakersIn(l) : WordsSpokenBy(l, m) <= WordsSpokenBy(l, n)}

\* among them, the one who appears first in the log
FirstTopSpeaker(l) ==
    CHOOSE n \in TopSpeakers(l) :
        \A m \in TopSpeakers(l) : FirstTurnOf(l, n) <= FirstTurnOf(l, m)

RECURSIVE SumShares(_, _)
SumShares(keys, share) ==
    IF keys = <<>> THEN Zero
    ELSE RatAdd(share.val[Head(keys)], SumShares(Tail(keys), share))

Computed == called /\ result # Null
Snapshot == result[1]

(* ------------------------------- C1 ----------------------------------- *)
\* C1: whenever the log's total word count is above 0, the speakingShare
\* values sum to 1: every speaker's share is that speaker's word count over
\* totalWords, and the word counts sum to totalWords.
C1_SharesSumToOne ==
    (Computed /\ Snapshot.totalWords > 0) =>
        /\ SumShares(ObjectKeys(Snapshot.speakingShare),
                     Snapshot.speakingShare) = One
        /\ Snapshot.totalWords = WordsSpoken(log)
        /\ Range(ObjectKeys(Snapshot.speakingShare)) = SpeakersIn(log)
        /\ \A n \in SpeakersIn(log) :
              Snapshot.speakingShare.val[n]
                  = Ratio(WordsSpokenBy(log, n), Snapshot.totalWords)

\* a computed snapshot of a log in which two speakers said something
C1_Witness ==
    /\ Computed
    /\ Snapshot.totalWords > 0
    /\ \E n, m \in SpeakersIn(log) :
          n # m /\ WordsSpokenBy(log, n) > 0 /\ WordsSpokenBy(log, m) > 0

(* ------------------------------- C2 ----------------------------------- *)
\* C2 as stated: for a non-empty log whose total word count is 0, the
\* speakingShare has no entries.
C2_NoEntriesWhenNoWords ==
    (Computed /\ Snapshot.totalWords = 0) =>
        ObjectKeys(Snapshot.speakingShare) = <<>>

\* C2 as amended: for a non-empty log whose total word count is 0, the
\* speakingShare has one entry for every speaker of the log, each equal to 0
\* (and so its values sum to 0).
C2_ZeroEntriesWhenNoWords ==
    (Computed /\ Snapshot.totalWords = 0) =>
        /\ Range(ObjectKeys(Snapshot.speakingShare)) = SpeakersIn(log)
        /\ \A n \in SpeakersIn(log) : Snapshot.speakingShare.val[n] = Zero
        /\ SumShares(ObjectKeys(Snapshot.speakingShare),
                     Snapshot.speakingShare) = Zero

\* a computed snapshot of a wordless log with two speakers
C2_Witness ==
    /\ Computed
    /\ Snapshot.totalWords = 0
    /\ Cardinality(SpeakersIn(log)) >= 2

(* ------------------------------- C3 ----------------------------------- *)
\* C3: dominantSpeaker is the speaker with the largest word count, and when
\* several speakers tie for it, the tied speaker who appears first in the
\* log, whatever the speakers are called. (Stated for logs with at least one
\* word; for a wordless log the code reports no dominant speaker at all.)
C3_DominantIsFirstTop ==
    (Computed /\ WordsSpoken(log) > 0) =>
        Snapshot.dominantSpeaker = Some(FirstTopSpeaker(log))

(* ------------------------------- C10 ---------------------------------- *)
\* one speaker said every word of the log, and there is at least one word
SoleTalker(l, n) ==
    n \in SpeakersIn(l) /\ WordsSpoken(l) > 0
        /\ WordsSpokenBy(l, n) = WordsSpoken(l)

\* C10 as stated: when a single speaker utters all the words (at least
\* one), underrepresented = [] and dominantShare = 1.
C10_SoleTalkerNobodyUnderrepresented ==
    (Computed /\ \E n \in SpeakersIn(log) : SoleTalker(log, n)) =>
        /\ Snapshot.underrepresented = <<>>
        /\ Snapshot.dominantShare = One

\* C10 as amended: when a single speaker utters all the words (at least
\* one), dominantShare = 1, that speaker is the dominant speaker, and
\* underrepresented lists exactly the other speakers of the log, each with
\* share 0; it is [] exactly when no other speaker appears in the log.
C10_SoleTalkerOthersUnderrepresented ==
    \A n \in SpeakersIn(log) :
        (Computed /\ SoleTalker(log, n)) =>
            /\ Snapshot.dominantShare = One
            /\ Snapshot.dominantSpeaker = Some(n)
            /\ {e.name : e \in Range(Snapshot.underrepresented)}
                  = SpeakersIn(log) \ {n}
            /\ \A e \in Range(Snapshot.underrepresented) : e.share = Zero
            /\ Len(Snapshot.underrepresented)
                  = Cardinality(SpeakersIn(log)) - 1

\* a computed snapshot of a log where one speaker said everything while
\* another speaker is present with an empty utterance
C10_Witness ==
    /\ Computed
    /\ \E n \in SpeakersIn(log) : SoleTalker(log, n)
    /\ Cardinality(SpeakersIn(log)) >= 2

(* ------------------------------- C4 ----------------------------------- *)
\* the participation snapshot an answer of GET /state carries
ParticipationIn(r) == IF r.body = Null THEN Null ELSE r.body[1].participation

\* C4: two state queries with no webhook event in between return the same
\* status and the same participation snapshot; the first query does not
\* change what the second one returns.
C4_QueryIdempotent ==
    [][(response # Null /\ response' # Null) =>
          /\ response'.status = response.status
          /\ ParticipationIn(response') = ParticipationIn(response)]_vars

\* a second answer in a row, carrying a snapshot of a two-utterance log
C4_Witness ==
    /\ response # Null
    /\ response.repeat
    /\ ParticipationIn(response) # Null
    /\ ParticipationIn(response)[1].totalTurns >= 2

(* ------------------------------- C5 ----------------------------------- *)
TranscriptsOf(bots, b) ==
    IF bots[b] = Null THEN <<>> ELSE bots[b][1].transcripts

\* totalWords of a snapshot (0 for the null snapshot of the empty log)
TotalWordsIn(snapshot) ==
    IF snapshot = Null THEN 0 ELSE snapshot[1].totalWords

\* a speaker's cumulative word count in a snapshot: share * totalWords
WordsIn(snapshot, name) ==
    IF snapshot = Null THEN 0
    ELSE IF ~ObjHas(snapshot[1].speakingShare, name) THEN 0
    ELSE (snapshot[1].speakingShare.val[name].num * snapshot[1].totalWords)
            \div snapshot[1].speakingShare.val[name].den

\* C5: whenever a webhook event changes a bot's log, the snapshot computed
\* after the change has a totalWords, and a cumulative word count of the
\* speaker of the newest utterance, no smaller than the snapshot before it.
C5_AppendMonotone ==
    [][\A b \in BotIds :
          TranscriptsOf(botsState', b) # TranscriptsOf(botsState, b) =>
              LET before == computeParticipationMetrics(
                                TranscriptsOf(botsState, b), DefaultWindowSize)
                  after == computeParticipationMetrics(
                                TranscriptsOf(botsState', b), DefaultWindowSize)
                  speaker == SpeakerOf(Last(TranscriptsOf(botsState', b)))
              IN /\ TotalWordsIn(after) >= TotalWordsIn(before)
                 /\ WordsIn(after, speaker) >= WordsIn(before, speaker)]_vars

\* a log to which a speaker who had already spoken appended an utterance
C5_Witness ==
    \E b \in BotIds :
        LET l == TranscriptsOf(botsState, b)
        IN /\ Len(l) >= 2
           /\ WordsSpokenBy(l, SpeakerOf(Last(l)))
                 > WordCount(Last(l).text)

(* --------------------- timing, as the claims define it ---------------- *)
StartOf(t) == CurTimeOf(t)
EndOf(t) == toSeconds(t.endSec)

\* the time gap of an adjacent pair: from the end of the prior utterance to
\* the start of the next, from start to start when the prior has no end
\* time, and Null when a time is missing
GapBetween(prior, next) ==
    IF StartOf(next) = Null THEN Null
    ELSE IF EndOf(prior) # Null THEN Some(StartOf(next)[1] - EndOf(prior)[1])
    ELSE IF StartOf(prior) # Null
         THEN Some(StartOf(next)[1] - StartOf(prior)[1])
    ELSE Null

\* the adjacent pairs of the log where the speaker changes
Transitions(l) ==
    {i \in 1..(Len(l) - 1) : SpeakerOf(l[i]) # SpeakerOf(l[i + 1])}

\* those whose gap lies in [0, 1.5 s]
InterruptionsAt(l) ==
    {i \in Transitions(l) :
        /\ GapBetween(l[i], l[i + 1]) # Null
        /\ GapBetween(l[i], l[i + 1])[1] >= 0
        /\ GapBetween(l[i], l[i + 1])[1] <= InterruptionGapMax}

\* those whose gap exceeds 15 s
SilencesAt(l) ==
    {i \in Transitions(l) :
        /\ GapBetween(l[i], l[i + 1]) # Null
        /\ GapBetween(l[i], l[i + 1])[1] > SilenceMinSec}

Untimed(l) == \A i \in 1..Len(l) : StartOf(l[i]) = Null

(* ------------------------------- C6 ----------------------------------- *)
\* C6: for a non-empty log without any timestamp the snapshot has
\* durationSec = null, turnTakingPerMin = null, no silence periods, zero
\* interruptions and no longestSilence (none is made up with duration 0),
\* while speakingShare is non-empty.
C6_UntimedLogDegrades ==
    (Computed /\ Untimed(log)) =>
        /\ Snapshot.durationSec = Null
        /\ TurnTakingPerMinOf(Snapshot) = Null
        /\ SilencePeriodsOf(Snapshot) = <<>>
        /\ Snapshot.interruptions = 0
        /\ ~LongestSilenceShown(Snapshot)
        /\ ObjectKeys(Snapshot.speakingShare) # <<>>

(* ------------------------------- C7 ----------------------------------- *)
\* C7: the interruptions count is the number of adjacent pairs with
\* different speakers whose gap, from the end of the prior utterance to the
\* start of the next (start to start without end times), is within
\* [0, 1.5 s].
C7_InterruptionsCountGaps ==
    Computed => Snapshot.interruptions = Cardinality(InterruptionsAt(log))

(* ------------------------------- C8 ----------------------------------- *)
\* the pairs the code itself counts as interruptions: start to start
CountedInterruptionsAt(l) ==
    {i \in Transitions(l) :
        /\ StartOf(l[i]) # Null /\ StartOf(l[i + 1]) # Null
        /\ StartOf(l[i + 1])[1] - StartOf(l[i])[1] >= 0
        /\ StartOf(l[i + 1])[1] - StartOf(l[i])[1] <= InterruptionGapMax}

\* C8: the snapshot carries a per-speaker interruption breakdown that
\* attributes every counted interruption to the later speaker of its pair,
\* so that its values sum to the interruptions count.
C8_InterruptionsAttributed ==
    Computed =>
        LET counts == InterruptionCountsOf(Snapshot)
        IN /\ SumValues(counts) = Snapshot.interruptions
           /\ \A n \in SpeakersIn(log) :
                 ObjGetOr0(counts, n)
                   = Cardinality({i \in CountedInterruptionsAt(log) :
                                     SpeakerOf(log[i + 1]) = n})

(* ------------------------------- C9 ----------------------------------- *)
\* C9: the silence periods are exactly the transition gaps above 15 s,
\* longestSilence is the longest of them, and no gap of at most 15 s is
\* reported as longestSilence.
C9_SilenceAboveThreshold ==
    Computed =>
        /\ Len(SilencePeriodsOf(Snapshot)) = Cardinality(SilencesAt(log))
        /\ Snapshot.longestSilence.durationSec > 0 =>
              /\ Snapshot.longestSilence.durationSec > SilenceMinSec
              /\ \E i \in SilencesAt(log) :
                    /\ Snapshot.longestSilence.durationSec
                          = GapBetween(log[i], log[i + 1])[1]
                    /\ \A j \in SilencesAt(log) :
                          GapBetween(log[j], log[j + 1])[1]
                              <= GapBetween(log[i], log[i + 1])[1]
        /\ SilencesAt(log) # {} => Snapshot.longestSilence.durationSec > 0

(* ------------------------------- C11 ---------------------------------- *)
\* a speaker's share of the log's words, 0 when the log has no word
ShareIn(l, name) ==
    IF WordsSpoken(l) > 0 THEN Ratio(WordsSpokenBy(l, name), WordsSpoken(l))
    ELSE Zero

Diagnosed == called /\ diagResult # Null /\ ~diagResult[1].threw
Diagnostics == diagResult[1].value

\* C11: the underrepresented list of the live snapshot names exactly the
\* speakers whose share of the log's words is strictly below 1/5, and the
\* one of the summarization diagnostics names exactly the speakers whose
\* share is strictly below 1/10.
C11_UnderrepresentedBelowThreshold ==
    /\ Computed =>
          {e.name : e \in Range(Snapshot.underrepresented)}
            = {n \in SpeakersIn(log) : RatLT(ShareIn(log, n), Ratio(1, 5))}
    /\ Diagnosed =>
          Range(Diagnostics.underrepresented)
            = {n \in SpeakersIn(log) : RatLT(ShareIn(log, n), Ratio(1, 10))}

\* a log in which one speaker holds exactly 1/10 of the words and is named by
\* the live snapshot but not by the summarization diagnostics
C11_Witness ==
    /\ Computed
    /\ Diagnosed
    /\ \E n \in SpeakersIn(log) :
          /\ ShareIn(log, n) = Ratio(1, 10)
          /\ n \in {e.name : e \in Range(Snapshot.underrepresented)}
          /\ n \notin Range(Diagnostics.underrepresented)

(* ------------------------------- C12 ---------------------------------- *)
\* the recent-window dominant share is above 0.6 while another speaker of
\* the log has words
DominantTrigger(l, snapshot) ==
    /\ RatGT(snapshot.window.dominantShare, Ratio(3, 5))
    /\ \E n \in SpeakersIn(l) :
          /\ Some(n) # snapshot.window.dominantSpeaker
          /\ WordsSpokenBy(l, n) > 0

\* C12: whenever the recent-window dominant share is above 0.6 with another
\* active speaker, or at least one speaker is underrepresented, the balance
\* verdict shown for the snapshot is needs_attention, with a reason; a log
\* with an underrepresented speaker is never shown as Balanced.
C12_TriggerNeedsAttention ==
    (Computed /\ (DominantTrigger(log, Snapshot)
                    \/ Snapshot.underrepresented # <<>>)) =>
        /\ BalanceOf(Snapshot).status = "needs_attention"
        /\ BalanceOf(Snapshot).reasons # <<>>
        /\ BalanceLabel(Snapshot) = "Needs attention"

(* ------------------------------- C13 ---------------------------------- *)
\* the segments of every row of the timeline
SegmentsOf(tl) ==
    UNION {Range(tl.perSpeaker.val[n]) : n \in Range(tl.perSpeaker.order)}

Rendered == called /\ timeline # Null

InPercentRange(x) == ~RatLT(x, Zero) /\ ~RatGT(x, Ratio(100, 1))

\* C13: for every log with at least one finite startSec (endSec present,
\* absent or smaller than startSec), every segment of the timeline has
\* 0 <= startPct <= 100 and 0 <= widthPct <= 100.
C13_SegmentsWithinBounds ==
    Rendered =>
        \A seg \in SegmentsOf(timeline[1]) :
            InPercentRange(seg.startPct) /\ InPercentRange(seg.widthPct)

(* ------------------------------- C14 ---------------------------------- *)
HasFiniteStart(l) == \E i \in 1..Len(l) : l[i].startSec.kind = "number"

\* C14: SpeakerTimeline returns null when no utterance of the log has a
\* finite startSec, and a timeline whenever at least one has.
C14_TimelineIffFiniteStart ==
    called => (timeline = Null <=> ~HasFiniteStart(log))

\* a non-empty log none of whose utterances has a finite startSec, though
\* one has a finite endSec, was rendered as nothing
C14_Witness ==
    /\ called
    /\ timeline = Null
    /\ \E i \in 1..Len(log) : log[i].endSec.kind = "number"

(* ------------------------------- C15 ---------------------------------- *)
\* a bot's partialTranscript ("" when the bot does not exist)
PartialOf(bots, b) ==
    IF bots[b] = Null THEN <<>> ELSE bots[b][1].partialTranscript

\* words.map((w) => w.text).join(" ").trim(): the text of an event
EventText(words) == Trim(JoinWords(words))

\* C15: a transcript.partial_data event leaves the bot's partialTranscript
\* equal to the event's text, whatever it was before, and changes neither
\* the log nor the snapshot computed from it; a transcript.data event
\* leaves the partialTranscript empty, and the utterance it appends carries
\* the event's own text. Seen from the state alone: every step that extends
\* the log leaves the partialTranscript empty, and every step that leaves a
\* new partialTranscript leaves the log as it was.
C15_PartialLifecycle ==
    [][\A b \in BotIds, words \in WordLists :
          /\ TranscriptsOf(botsState', b) # TranscriptsOf(botsState, b) =>
                PartialOf(botsState', b) = <<>>
          /\ (PartialOf(botsState', b) # PartialOf(botsState, b)
                /\ PartialOf(botsState', b) # <<>>) =>
                TranscriptsOf(botsState', b) = TranscriptsOf(botsState, b)
          /\ WebhookPartialData(b, words) =>
                /\ PartialOf(botsState', b) = EventText(words)
                /\ TranscriptsOf(botsState', b) = TranscriptsOf(botsState, b)
                /\ computeParticipationMetrics(TranscriptsOf(botsState', b),
                                               DefaultWindowSize)
                     = computeParticipationMetrics(
                           TranscriptsOf(botsState, b), DefaultWindowSize)
          /\ \A p \in Participants, i \in InnerIds :
                WebhookTranscriptData(b, words, p, i) =>
                    /\ PartialOf(botsState', b) = <<>>
                    /\ TranscriptsOf(botsState', b)
                          # TranscriptsOf(botsState, b) =>
                         Last(TranscriptsOf(botsState', b)).text
                           = EventText(words)]_vars

\* a bot that holds a partial utterance after a final one was logged, the
\* earlier partial having been cleared
C15_Witness ==
    \E b \in BotIds :
        /\ PartialOf(botsState, b) # <<>>
        /\ TranscriptsOf(botsState, b) # <<>>

(* ------------------------------- C16 ---------------------------------- *)
IsPrefix(p, l) == Len(p) <= Len(l) /\ SubSeq(l, 1, Len(p)) = p

\* C16: across every step of webhook events and state, coach, summary and
\* stop requests, a bot's transcripts before the step are a prefix of its
\* transcripts after it, every stored utterance unchanged; a step that
\* answers a state query leaves the log as it was.
C16_LogAppendOnly ==
    [][\A b \in BotIds :
          /\ IsPrefix(TranscriptsOf(botsState, b), TranscriptsOf(botsState', b))
          /\ (response' # Null /\ response' # response) =>
                TranscriptsOf(botsState', b) = TranscriptsOf(botsState, b)]_vars

\* a stopped bot with a stored summary and an awaiting coach request still
\* holds the two utterances it logged
C16_Witness ==
    \E b \in BotIds :
        /\ botsState[b] # Null
        /\ botsState[b][1].status = "ended"
        /\ botsState[b][1].summary # Null
        /\ Len(botsState[b][1].transcripts) >= 2
        /\ \E r \in requests : r.kind = "coach" /\ r.bot = b

(* ------------------------------- C17 ---------------------------------- *)
Prefixes(l) == {SubSeq(l, 1, n) : n \in 0..Len(l)}

\* C17: the participation in an answer of GET /state is the metrics of the
\* transcripts in that answer, and the diagnostics, the participation
\* metrics and the transcript text of an awaiting /summary request are all
\* computed from one prefix of the bot's log, whatever was appended since.
C17_PointInTimeLog ==
    /\ (response # Null /\ response.body # Null) =>
          response.body[1].participation
            = computeParticipationMetrics(response.body[1].transcripts,
                                          DefaultWindowSize)
    /\ \A r \in requests :
          r.kind = "summary" =>
              \E p \in Prefixes(TranscriptsOf(botsState, r.bot)) :
                  /\ r.diagnostics = Some(computeDiagnostics(p))
                  /\ r.participation
                       = computeParticipationMetrics(p, DefaultWindowSize)
                  /\ r.transcriptText = Some(LinesOf(p))

\* a /summary request built from a one-utterance log is still awaiting its
\* answer when the log has grown
C17_Witness ==
    \E r \in requests :
        /\ r.kind = "summary"
        /\ r.participation # Null
        /\ r.participation[1].totalTurns = 1
        /\ Len(TranscriptsOf(botsState, r.bot)) = 2

(* ------------------------------- C18 ---------------------------------- *)
\* C18: for every log shape (empty, without timestamps, with missing or
\* empty text, without any word) computeParticipationMetrics,
\* computeDiagnostics and buildCoachWindow each return a value, null being
\* returned by computeParticipationMetrics for the empty log only.
C18_EngineNeverRaises ==
    called =>
        /\ (result = Null <=> log = <<>>)
        /\ ~diagResult[1].threw
        /\ ~coachResult[1].threw

(* ------------------------------- C19 ---------------------------------- *)
\* C19: at no time are two automatic coach requests in flight, and every
\* automatic request was issued at least 2 minutes after the last coach
\* answer accepted before it.
C19_AutoPromptThrottled ==
    /\ Cardinality(inflight) <= 1
    /\ \A r \in inflight :
          r.since # 0 => r.issuedAt - r.since >= MinSpacing

(* ------------------------------- C20 ---------------------------------- *)
\* the last w utterances of a log (all of them when it has at most w)
LastN(l, w) ==
    LET k == IF w < Len(l) THEN w ELSE Len(l)
    IN SubSeq(l, Len(l) - k + 1, Len(l))

\* the dominant speaker and share of a log, read off the log: nobody and 0
\* for a log without words
DominantIn(l) ==
    IF WordsSpoken(l) = 0 THEN [speaker |-> Null, share |-> Zero]
    ELSE [speaker |-> Some(FirstTopSpeaker(l)),
          share |-> Ratio(WordsSpokenBy(l, FirstTopSpeaker(l)),
                          WordsSpoken(l))]

WindowMatches ==
    /\ Snapshot.window.dominantSpeaker
         = DominantIn(LastN(log, windowSize)).speaker
    /\ Snapshot.window.dominantShare
         = DominantIn(LastN(log, windowSize)).share
    /\ Len(log) <= windowSize =>
          /\ Snapshot.window.dominantSpeaker = Snapshot.dominantSpeaker
          /\ Snapshot.window.dominantShare = Snapshot.dominantShare

\* C20 as stated: for every log and every window size w, the window's
\* dominant speaker and share are those of the last w utterances alone, and
\* equal the whole-call ones when the log has at most w utterances.
C20_WindowIsLastW ==
    Computed => WindowMatches

\* C20, amended: the same for every window size w >= 1.
C20_WindowIsLastPositiveW ==
    (Computed /\ windowSize >= 1) => WindowMatches

\* a log longer than its window whose recent dominant speaker is not the
\* whole-call one
C20_Witness ==
    /\ Computed
    /\ windowSize >= 1
    /\ Len(log) > windowSize
    /\ Snapshot.window.dominantSpeaker # Snapshot.dominantSpeaker

(* ------------------------------- C21 ---------------------------------- *)
\* C21: transitions is the number of adjacent utterance pairs whose speaker
\* differs, a missing name counting as the speaker 'Unknown', whether or not
\* the utterances carry timestamps.
C21_TransitionsCountSpeakerChanges ==
    Computed => Snapshot.transitions = Cardinality(Transitions(log))

\* a log with two speaker changes, one of them at an utterance without a
\* name, in which one utterance is timed and another is not
C21_Witness ==
    /\ Computed
    /\ Snapshot.transitions = 2
    /\ \E i \in 1..Len(log) : log[i].speakerName = ""
    /\ \E i, j \in 1..Len(log) :
          StartOf(log[i]) = Null /\ StartOf(log[j]) # Null

(* ------------------------------- C22 ---------------------------------- *)
\* a bot's incrementally kept diagnostics (those of a new bot when the bot
\* does not exist)
DiagnosticsOf(bots, b) ==
    IF bots[b] = Null THEN NewBot.diagnostics ELSE bots[b][1].diagnostics

\* C22: a transcript.data event whose joined and trimmed text is empty is
\* handled like any other (the handler completes and answers ok) and leaves
\* the bot's transcripts and its diagnostics (totalWords, totalUtterances,
\* perSpeaker) as they were; only the partial transcript is cleared. Hence
\* no step ever stores an utterance with empty text.
C22_EmptyTextContributesNothing ==
    [][\A b \in BotIds :
          /\ \A p \in Participants, i \in InnerIds :
                ENABLED WebhookTranscriptData(b, <<Word(<<>>, Undefined)>>,
                                              p, i)
          /\ \A words \in WordLists, p \in Participants, i \in InnerIds :
                (EventText(words) = <<>>
                   /\ WebhookTranscriptData(b, words, p, i)) =>
                    /\ TranscriptsOf(botsState', b) = TranscriptsOf(botsState, b)
                    /\ DiagnosticsOf(botsState', b) = DiagnosticsOf(botsState, b)
                    /\ PartialOf(botsState', b) = <<>>
          /\ \A k \in 1..Len(TranscriptsOf(botsState', b)) :
                TranscriptsOf(botsState', b)[k].text # <<>>
          /\ DiagnosticsOf(botsState', b).totalUtterances
                = Len(TranscriptsOf(botsState', b))]_vars

\* a bot that logged an utterance, counted its word, and holds no partial
\* text
C22_Witness ==
    \E b \in BotIds :
        /\ Len(TranscriptsOf(botsState, b)) = 1
        /\ DiagnosticsOf(botsState, b).totalWords = 1
        /\ PartialOf(botsState, b) = <<>>

(* ------------------------------- C26 ---------------------------------- *)
\* a bot's participants entry for an id (Null: no entry, also without bot)
ParticipantOf(bots, b, p) ==
    IF bots[b] = Null THEN Null ELSE bots[b][1].participants[p]

\* C26: in every reachable state, a participant marked isSpeaking is also
\* marked inCall.
C26_SpeakingImpliesInCall ==
    \A b \in BotIds, p \in ParticipantIds :
        (ParticipantOf(botsState, b, p) # Null
           /\ ParticipantOf(botsState, b, p)[1].isSpeaking) =>
            ParticipantOf(botsState, b, p)[1].inCall

(* ------------------------------- C27 ---------------------------------- *)
StatusOf(bots, b) == IF bots[b] = Null THEN "none" ELSE bots[b][1].status

\* C27: once a bot's status is 'ended', no later step appends to its
\* transcripts, marks one of its participants inCall or isSpeaking, or
\* changes its status.
C27_EndedStaysClosed ==
    [][\A b \in BotIds :
          StatusOf(botsState, b) = "ended" =>
              /\ StatusOf(botsState', b) = "ended"
              /\ TranscriptsOf(botsState', b) = TranscriptsOf(botsState, b)
              /\ \A p \in ParticipantIds :
                    ParticipantOf(botsState', b, p) # Null =>
                        /\ ~ParticipantOf(botsState', b, p)[1].inCall
                        /\ ~ParticipantOf(botsState', b, p)[1].isSpeaking]_vars

(* ------------------------------- C23 ---------------------------------- *)
\* C23: a webhook event or request addressed to one bot leaves the state of
\* every other bot (transcripts, partial transcript, participants,
\* diagnostics, status) as it was, so no step changes two bots; a webhook
\* payload without a bot id changes no bot.
C23_SessionsIndependent ==
    [][/\ \A a, b \in SessionBotIds :
            (a # b /\ AddressedTo(a)) => botsState'[b] = botsState[b]
       /\ \A a, b \in SessionBotIds :
            (a # b /\ botsState'[a] # botsState[a]) =>
                botsState'[b] = botsState[b]
       /\ WebhookNoBotId => botsState' = botsState]_vars

\* two bots with different logs, one of them stopped with its participant
\* out of the call, the other still holding a partial utterance
C23_Witness ==
    /\ StatusOf(botsState, "bot1") = "ended"
    /\ StatusOf(botsState, "bot2") = "created"
    /\ Len(TranscriptsOf(botsState, "bot1")) = 1
    /\ Len(TranscriptsOf(botsState, "bot2")) = 2
    /\ PartialOf(botsState, "bot2") # <<>>
    /\ ParticipantOf(botsState, "bot1", "p1") = Some(Participant(FALSE, FALSE))
    /\ ParticipantOf(botsState, "bot2", "p1") = Some(Participant(TRUE, FALSE))

(* ------------------------------- C24 ---------------------------------- *)
\* C24: the utterances of a bot's log have pairwise distinct ids, for every
\* sequence of transcript.data events, with or without an id of their own
\* and whatever the clock reads when they are handled.
C24_DistinctUtteranceIds ==
    \A b \in BotIds :
        LET l == TranscriptsOf(botsState, b)
        IN \A i, j \in 1..Len(l) : i # j => l[i].id # l[j].id

(* ------------------------------- C25 ---------------------------------- *)
\* C25: in every reachable state the diagnostics kept up to date by
\* trackTranscriptDiagnostics agree with a recomputation from the log:
\* totalWords is computeDiagnostics' totalWords, totalUtterances is the
\* length of the log, and the speakers with an entry are the speakers of
\* the log, each with the word count recomputed for that speaker.
C25_IncrementalMatchesRecomputed ==
    \A b \in BotIds :
        LET l == TranscriptsOf(botsState, b)
            diag == DiagnosticsOf(botsState, b)
            recomputed == computeDiagnostics(l)
            wordCounts == SplitCountsOf(l)
        IN /\ ~recomputed.threw
           /\ diag.totalWords = recomputed.value.totalWords
           /\ diag.totalUtterances = Len(l)
           /\ diag.totalUtterances = recomputed.value.totalUtterances
           /\ Range(diag.perSpeaker.order) = Range(wordCounts.order)
           /\ \A name \in Range(wordCounts.order) :
                  diag.perSpeaker.val[name].words = wordCounts.val[name]

\* a log of two utterances by two speakers, of one and of two words
C25_Witness ==
    \E b \in BotIds :
        LET diag == DiagnosticsOf(botsState, b)
        IN /\ Len(TranscriptsOf(botsState, b)) = 2
           /\ diag.totalWords = 3
           /\ Cardinality(Range(diag.perSpeaker.order)) = 2
           /\ \E name \in Range(diag.perSpeaker.order) :
                  diag.perSpeaker.val[name].words = 2

(* ------------------------------- C28 ---------------------------------- *)
\* C28: for every log, in arrival order of timestamps or not, a durationSec
\* that is not null is non-negative and at least longestSilence.durationSec.
C28_SilenceWithinDuration ==
    (Computed /\ Snapshot.durationSec # Null) =>
        /\ Snapshot.durationSec[1] >= 0
        /\ Snapshot.longestSilence.durationSec <= Snapshot.durationSec[1]

(* ------------------------------- C30 ---------------------------------- *)
\* the two analytics of one summary request agree: same totalWords, same
\* share for every speaker, and every speaker the diagnostics list as
\* underrepresented is listed by the snapshot too
AnalyticsAgree ==
    /\ Diagnosed
    /\ Computed
    /\ Diagnostics.totalWords = Snapshot.totalWords
    /\ Diagnostics.speakerWordShare = Snapshot.speakingShare
    /\ Range(Diagnostics.underrepresented)
          \subseteq {e.name : e \in Range(Snapshot.underrepresented)}

\* C30: for every log, computeDiagnostics and computeParticipationMetrics
\* report the same totalWords and the same per-speaker shares, and the
\* speakers computeDiagnostics lists as underrepresented are among those
\* computeParticipationMetrics lists.
C30_AnalyticsConsistent == called => AnalyticsAgree

\* C30, amended: the same for every log that is not empty.
C30_AnalyticsConsistentNonEmpty == (called /\ log # <<>>) => AnalyticsAgree

\* a log in which a speaker with words holds less than 1/10 of them and is
\* listed by both analytics
C30_Witness ==
    /\ called
    /\ AnalyticsAgree
    /\ Snapshot.totalWords > 0
    /\ \E n \in Range(Diagnostics.underrepresented) :
          /\ WordsSpokenBy(log, n) > 0
          /\ n \in {e.name : e \in Range(Snapshot.underrepresented)}

(* ------------------------------- C29 ---------------------------------- *)
\* the number of transcripts the live view displays
Displayed == IF botState = Null THEN 0 ELSE Len(botState[1].data.transcripts)

\* C29: while the frontend polls one bot, under every order of arrival of
\* the answers the number of transcripts it displays never decreases, and
\* the state it holds is never that of a bot other than the current one.
C29_NeverOlderState ==
    [][/\ botId' = botId => Displayed' >= Displayed
       /\ botState' # Null => Some(botState'[1].bot) = botId']_vars

====
